---- MODULE Spec2Model ----
(***************************************************************************)
(* FinMark CSV ETL pipeline (src/etl_pipeline.py): the shared store, the   *)
(* CSV files, and one FinMarkETLPipeline process run by main().            *)
(***************************************************************************)
EXTENDS Integers, Sequences, FiniteSets, TLC

(***************************************************************************)
(* Bounds of the model.                                                    *)
(***************************************************************************)
MaxRows == 2        \* rows of a network-inventory table
MaxEvents == 2      \* rows of an event-log table
MaxFaults == 1      \* statements of one run under which the store or the disk fails
MaxStale == 1       \* rows in each cleared table before the first run
MaxBatch == 3       \* records handed to a loader called on its own
MaxWords == 2       \* words in a text handed to a utility method called on its own
MaxNoise == 160     \* largest distance of a drawn noise value from its mean

(***************************************************************************)
(* Program constants.                                                      *)
(***************************************************************************)
HoursWindow == 24   \* range(24) in generate_system_metrics
SampleCap == 100    \* min(100, len(df)) in clean_event_logs
ErrorsShown == 5    \* self.errors[:5] in the summary

(***************************************************************************)
(* Text.  Python str values are TLA+ strings; a cell of a DataFrame row is *)
(* Text(s) for the string s, Num(n) for the number n, or NaN.              *)
(***************************************************************************)
NaN == [nan |-> TRUE]
Text(s) == [text |-> s]
Num(n) == [num |-> n]

CharAt(s, i) == SubSeq(s, i, i)

Upper == "ABCDEFGHIJKLMNOPQRSTUVWXYZ"
LowerAlpha == "abcdefghijklmnopqrstuvwxyz"
Digits == "0123456789"

IndexIn(c, alphabet) ==
  IF \E i \in 1..Len(alphabet) : CharAt(alphabet, i) = c
  THEN CHOOSE i \in 1..Len(alphabet) : CharAt(alphabet, i) = c
  ELSE 0

LowerChar(c) ==
  IF IndexIn(c, Upper) > 0 THEN CharAt(LowerAlpha, IndexIn(c, Upper)) ELSE c

RECURSIVE Lower(_)
Lower(s) == IF Len(s) = 0 THEN "" ELSE LowerChar(CharAt(s, 1)) \o Lower(SubSeq(s, 2, Len(s)))

IsSpace(c) == c \in {" ", "\t", "\n", "\r"}

RECURSIVE LStrip(_)
LStrip(s) ==
  IF Len(s) > 0 /\ IsSpace(CharAt(s, 1)) THEN LStrip(SubSeq(s, 2, Len(s))) ELSE s

RECURSIVE RStrip(_)
RStrip(s) ==
  IF Len(s) > 0 /\ IsSpace(CharAt(s, Len(s))) THEN RStrip(SubSeq(s, 1, Len(s) - 1)) ELSE s

Strip(s) == RStrip(LStrip(s))

\* Python's  sub in s
Contains(sub, s) ==
  \E i \in 1..(Len(s) - Len(sub) + 1) : SubSeq(s, i, i + Len(sub) - 1) = sub

\* Python's  s.split('.')
RECURSIVE SplitDots(_, _)
SplitDots(s, cur) ==
  IF Len(s) = 0 THEN <<cur>>
  ELSE IF CharAt(s, 1) = "." THEN <<cur>> \o SplitDots(SubSeq(s, 2, Len(s)), "")
  ELSE SplitDots(SubSeq(s, 2, Len(s)), cur \o CharAt(s, 1))

IsDigit(c) == IndexIn(c, Digits) > 0

AllDigits(s) == \A i \in 1..Len(s) : IsDigit(CharAt(s, i))

\* Python's int(part) for a part made of digits, with surrounding whitespace
RECURSIVE IntOf(_)
IntOf(s) ==
  IF Len(s) = 0 THEN 0
  ELSE 10 * IntOf(SubSeq(s, 1, Len(s) - 1)) + (IndexIn(CharAt(s, Len(s)), Digits) - 1)

\* str(value) of a cell: str(float('nan')) is 'nan'
RECURSIVE NatStr(_)
NatStr(n) == IF n < 10 THEN CharAt(Digits, n + 1) ELSE NatStr(n \div 10) \o CharAt(Digits, (n % 10) + 1)

IsText(cell) == "text" \in DOMAIN cell
IsNum(cell) == "num" \in DOMAIN cell

Str(cell) == IF IsText(cell) THEN cell.text ELSE IF IsNum(cell) THEN NatStr(cell.num) ELSE "nan"

\* row.get(col, default)
RowGet(row, col, default) == IF col \in DOMAIN row THEN row[col] ELSE default

(***************************************************************************)
(* Field normalizer and classification engine (utility methods).           *)
(***************************************************************************)
\* re.match(r'^(\d{1,3}\.){3}\d{1,3}$', ip): four groups of one to three digits
DottedQuad(ip) ==
  LET parts == SplitDots(ip, "")
  IN  /\ Len(parts) = 4
      /\ \A i \in 1..4 : Len(parts[i]) \in 1..3 /\ AllDigits(parts[i])

\* '$' also matches just before one trailing newline
MatchesIpPattern(ip) ==
  \/ DottedQuad(ip)
  \/ /\ Len(ip) > 0
     /\ CharAt(ip, Len(ip)) = "\n"
     /\ DottedQuad(SubSeq(ip, 1, Len(ip) - 1))

_validate_ip_address(ip) ==
  IF MatchesIpPattern(ip)
  THEN LET parts == SplitDots(ip, "")
       IN  \A i \in 1..Len(parts) : IntOf(Strip(parts[i])) \in 0..255
  ELSE FALSE

\* a categorizer that passes an unrecognised role through as the type
_categorize_device_type_verbatim(role) ==
  LET role_lower == Lower(role)
  IN  IF Contains("router", role_lower) THEN "router"
      ELSE IF Contains("server", role_lower) THEN "server"
      ELSE IF Contains("printer", role_lower) THEN "printer"
      ELSE IF Contains("pc", role_lower) \/ Contains("client", role_lower) THEN "workstation"
      ELSE role_lower

\* a categorizer that tests for 'server' before 'router'
_categorize_device_type_server_first(role) ==
  LET role_lower == Lower(role)
  IN  IF Contains("server", role_lower) THEN "server"
      ELSE IF Contains("router", role_lower) THEN "router"
      ELSE IF Contains("printer", role_lower) THEN "printer"
      ELSE "workstation"

_categorize_device_type(role) ==
  LET role_lower == Lower(role)
  IN  IF Contains("router", role_lower) THEN "router"
      ELSE IF Contains("server", role_lower) THEN "server"
      ELSE IF Contains("printer", role_lower) THEN "printer"
      ELSE IF Contains("pc", role_lower) \/ Contains("client", role_lower) THEN "workstation"
      ELSE "workstation"

critical_keywords == {"no antivirus", "outdated", "no firewall", "vulnerable"}
warning_keywords == {"ssl", "tls", "update", "patch"}

\* a status rule that tests the warning keywords first
_determine_device_status_warning_first(notes) ==
  LET notes_lower == Lower(notes)
  IN  IF \E k \in warning_keywords : Contains(k, notes_lower) THEN "warning"
      ELSE IF \E k \in critical_keywords : Contains(k, notes_lower) THEN "critical"
      ELSE "active"

_determine_device_status(notes) ==
  LET notes_lower == Lower(notes)
  IN  IF \E k \in critical_keywords : Contains(k, notes_lower) THEN "critical"
      ELSE IF \E k \in warning_keywords : Contains(k, notes_lower) THEN "warning"
      ELSE "active"

\* an event table that tests for 'checkout' before 'login'
_categorize_security_event_checkout_first(event_type) ==
  LET event_lower == Lower(event_type)
  IN  IF Contains("checkout", event_lower) THEN <<"suspicious_traffic", "warning", FALSE>>
      ELSE IF Contains("login", event_lower) THEN <<"login_failure", "critical", TRUE>>
      ELSE IF Contains("wishlist", event_lower) THEN <<"unauthorized_access", "warning", TRUE>>
      ELSE <<"suspicious_traffic", "info", FALSE>>

\* an event table that flags no login as a threat
_categorize_security_event_unflagged(event_type) ==
  LET event_lower == Lower(event_type)
  IN  IF Contains("login", event_lower) THEN <<"login_failure", "critical", FALSE>>
      ELSE IF Contains("checkout", event_lower) THEN <<"suspicious_traffic", "warning", FALSE>>
      ELSE IF Contains("wishlist", event_lower) THEN <<"unauthorized_access", "warning", TRUE>>
      ELSE <<"suspicious_traffic", "info", FALSE>>

\* (security event type, severity, is_threat)
_categorize_security_event(event_type) ==
  LET event_lower == Lower(event_type)
  IN  IF Contains("login", event_lower) THEN <<"login_failure", "critical", TRUE>>
      ELSE IF Contains("checkout", event_lower) THEN <<"suspicious_traffic", "warning", FALSE>>
      ELSE IF Contains("wishlist", event_lower) THEN <<"unauthorized_access", "warning", TRUE>>
      ELSE IF Contains("profile", event_lower) THEN <<"suspicious_traffic", "info", FALSE>>
      ELSE <<"suspicious_traffic", "info", FALSE>>

\* np.random.randint(1, 254) draws from 1..253; the model draws the two ends
RandLow == 1
RandHigh == 254
SourceOctets == {RandLow, RandHigh - 1}

_generate_source_ip(event_type, octet) ==
  IF Contains("login", Lower(event_type))
  THEN "203.0.113." \o NatStr(octet)
  ELSE "192.168.1." \o NatStr(octet)

\* 'amount and amount > 0' raises TypeError when amount is a non-empty string
AmountRaises(amount) == IsText(amount) /\ Len(amount.text) > 0

AmountPositive(amount) == IsNum(amount) /\ amount.num > 0

_create_event_details(event_type, user_id, product_id, amount) ==
  LET d0 == "Event Type: " \o event_type
      d1 == IF user_id # "unknown" THEN d0 \o " | User: " \o user_id ELSE d0
      d2 == IF Len(product_id) > 0 THEN d1 \o " | Product: " \o product_id ELSE d1
      d3 == IF AmountPositive(amount)
            THEN d2 \o " | Amount: $" \o NatStr(amount.num) \o ".00" ELSE d2
  IN  IF Contains("login", Lower(event_type))
      THEN d3 \o " | SECURITY: Multiple failed authentication attempts"
      ELSE IF Contains("checkout", Lower(event_type))
      THEN d3 \o " | BUSINESS: Transaction completed"
      ELSE d3

(***************************************************************************)
(* Transformation phase.  A DataFrame is the sequence of its rows; a row   *)
(* is a function from column names to cells.                               *)
(***************************************************************************)
\* a loop body that leaves every device at the default status
CleanDeviceRowUnrated(row) ==
  LET device_name == Strip(Str(RowGet(row, "Device", Text(""))))
      ip_address == Strip(Str(RowGet(row, "IP_Address", Text(""))))
      role == Strip(Str(RowGet(row, "Role", Text(""))))
      os_info == Strip(Str(RowGet(row, "OS", Text(""))))
      notes == Strip(Str(RowGet(row, "Notes", Text(""))))
  IN  IF ~_validate_ip_address(ip_address) THEN <<>>
      ELSE << [hostname |-> device_name,
               ip_address |-> ip_address,
               device_type |-> _categorize_device_type(role),
               os |-> os_info,
               status |-> "active",
               notes |-> notes] >>

\* one iteration of the loop of clean_network_inventory: <<>> when the row
\* is skipped, else the one cleaned record
CleanDeviceRow(row) ==
  LET device_name == Strip(Str(RowGet(row, "Device", Text(""))))
      ip_address == Strip(Str(RowGet(row, "IP_Address", Text(""))))
      role == Strip(Str(RowGet(row, "Role", Text(""))))
      os_info == Strip(Str(RowGet(row, "OS", Text(""))))
      notes == Strip(Str(RowGet(row, "Notes", Text(""))))
  IN  IF ~_validate_ip_address(ip_address) THEN <<>>
      ELSE << [hostname |-> device_name,
               ip_address |-> ip_address,
               device_type |-> _categorize_device_type(role),
               os |-> os_info,
               status |-> _determine_device_status(notes),
               notes |-> notes] >>

RECURSIVE clean_network_inventory(_)
clean_network_inventory(df) ==
  IF df = <<>> THEN <<>>
  ELSE CleanDeviceRow(Head(df)) \o clean_network_inventory(Tail(df))

\* one iteration of the loop of clean_event_logs
CleanEventRow(row, octet) ==
  LET event_type == Strip(Lower(Str(RowGet(row, "event_type", Text("unknown")))))
      user_id == Strip(Str(RowGet(row, "user_id", Text("unknown"))))
      product_id == Str(RowGet(row, "product_id", Text("")))
      amount == RowGet(row, "amount", Num(0))
      cat == _categorize_security_event(event_type)
  IN  IF AmountRaises(amount) THEN <<>>
      ELSE << [event_type |-> cat[1],
               severity |-> cat[2],
               source_ip |-> _generate_source_ip(event_type, octet),
               details |-> _create_event_details(event_type, user_id, product_id, amount),
               is_threat |-> cat[3]] >>

Min(a, b) == IF a < b THEN a ELSE b

\* octets[i] is the random octet drawn for row i
RECURSIVE CleanEventRows(_, _, _)
CleanEventRows(df, octets, i) ==
  IF i > Len(df) THEN <<>>
  ELSE CleanEventRow(df[i], octets[i]) \o CleanEventRows(df, octets, i + 1)

clean_event_logs(df, octets) ==
  IF df = <<>> THEN <<>>
  ELSE CleanEventRows(SubSeq(df, 1, Min(SampleCap, Len(df))), octets, 1)

Max(a, b) == IF a > b THEN a ELSE b

\* a loop body that stores the drawn values as they come
GenerateMetricUnclamped(devs, hour_of_day, noise) ==
  LET is_business_hours == 8 <= hour_of_day /\ hour_of_day <= 18
      base_cpu == IF is_business_hours THEN 60 ELSE 30
      base_memory == IF is_business_hours THEN 70 ELSE 40
      base_response == IF is_business_hours THEN 200 ELSE 100
  IN  [cpu_usage |-> base_cpu + noise.cpu,
       memory_usage |-> base_memory + noise.memory,
       response_time |-> base_response + noise.response]

\* one iteration of the loop of generate_system_metrics, for the hour of
\* the sample's timestamp and the three values np.random.normal draws
\* (whole numbers in the model); devs is the method's argument
GenerateMetric(devs, hour_of_day, noise) ==
  LET is_business_hours == 8 <= hour_of_day /\ hour_of_day <= 18
      base_cpu == IF is_business_hours THEN 60 ELSE 30
      base_memory == IF is_business_hours THEN 70 ELSE 40
      base_response == IF is_business_hours THEN 200 ELSE 100
  IN  [cpu_usage |-> Max(10, Min(95, base_cpu + noise.cpu)),
       memory_usage |-> Max(20, Min(90, base_memory + noise.memory)),
       response_time |-> Max(50, base_response + noise.response)]

\* generate_system_metrics: one sample per hour of the window, whatever devs
\* is; the drawn values are left out of the row
MetricSample == [cpu_usage |-> "drawn", memory_usage |-> "drawn", response_time |-> "drawn"]

generate_system_metrics(devs) == [i \in 1..HoursWindow |-> MetricSample]

(***************************************************************************)
(* Extraction phase.  A file is [state, decodes, rows]: state is "missing",*)
(* "unreadable" (present, but reading it fails with an error that is       *)
(* neither FileNotFoundError nor UnicodeDecodeError: an empty file, a      *)
(* parser error, a permission error) or "table"; decodes is the set of     *)
(* encodings under which its bytes decode.                                 *)
(***************************************************************************)
Encodings == <<"utf-8", "latin-1", "cp1252">>

\* pd.read_csv(filename, encoding=encoding)
ReadCsv(file, encoding) ==
  IF file.state = "missing" THEN [kind |-> "FileNotFoundError", df |-> <<>>]
  ELSE IF file.state = "unreadable" THEN [kind |-> "Exception", df |-> <<>>]
  ELSE IF encoding \notin file.decodes THEN [kind |-> "UnicodeDecodeError", df |-> <<>>]
  ELSE [kind |-> "ok", df |-> file.rows]

\* for encoding in [...]: try: return pd.read_csv(...) except UnicodeDecodeError: continue
RECURSIVE TryEncodings(_, _)
TryEncodings(file, encs) ==
  IF encs = <<>> THEN [kind |-> "exhausted", df |-> <<>>]
  ELSE LET r == ReadCsv(file, Head(encs))
       IN  IF r.kind = "UnicodeDecodeError" THEN TryEncodings(file, Tail(encs)) ELSE r

\* Each reader yields [df, errors, raised]: the table it returns, the
\* entries it appends to self.errors, and whether an exception leaves it.
extract_network_inventory(file) ==
  LET r == TryEncodings(file, Encodings)
  IN  IF r.kind = "ok"
      THEN [df |-> r.df, errors |-> <<>>, raised |-> FALSE]
      ELSE [df |-> <<>>, errors |-> <<"Network inventory extraction">>, raised |-> FALSE]

RECURSIVE ExtractEventFiles(_)
ExtractEventFiles(fs) ==
  IF fs = <<>>
  THEN [df |-> <<>>, errors |-> <<"Event logs extraction">>, raised |-> FALSE]
  ELSE LET r == TryEncodings(Head(fs), Encodings)
       IN  IF r.kind = "ok" THEN [df |-> r.df, errors |-> <<>>, raised |-> FALSE]
           ELSE IF r.kind \in {"FileNotFoundError", "exhausted"} THEN ExtractEventFiles(Tail(fs))
           ELSE [df |-> <<>>, errors |-> <<>>, raised |-> TRUE]

\* a reader that tries the space-suffixed name first
extract_event_logs_spaced_first(exact, spaced) == ExtractEventFiles(<<spaced, exact>>)

\* filenames = ['event_logs.csv', 'event_logs .csv']
extract_event_logs(exact, spaced) == ExtractEventFiles(<<exact, spaced>>)

extract_marketing_data(file) ==
  LET r == ReadCsv(file, "utf-8")
  IN  IF r.kind = "ok"
      THEN [df |-> r.df, errors |-> <<>>, raised |-> FALSE]
      ELSE [df |-> <<>>, errors |-> <<"Marketing data extraction">>, raised |-> FALSE]

(***************************************************************************)
(* Loading phase.  A store table is the sequence of its rows.  fails is    *)
(* the set of positions of the input list at which the store raises.       *)
(* Each loader yields [table, loaded_count, errors, attempted].            *)
(***************************************************************************)
WithHostname(table, hostname) == {i \in 1..Len(table) : table[i].hostname = hostname}

\* a get_or_create that looks the row up by its address instead of its hostname
get_or_create_by_address(table, hostname, defaults) ==
  LET n == Cardinality({i \in 1..Len(table) : table[i].ip_address = defaults.ip_address})
  IN  IF n = 0 THEN [table |-> Append(table, defaults), created |-> TRUE, raised |-> FALSE]
      ELSE IF n = 1 THEN [table |-> table, created |-> FALSE, raised |-> FALSE]
      ELSE [table |-> table, created |-> FALSE, raised |-> TRUE]

\* Device.objects.get_or_create(hostname=..., defaults=device_data)
get_or_create(table, hostname, defaults) ==
  LET n == Cardinality(WithHostname(table, hostname))
  IN  IF n = 0 THEN [table |-> Append(table, defaults), created |-> TRUE, raised |-> FALSE]
      ELSE IF n = 1 THEN [table |-> table, created |-> FALSE, raised |-> FALSE]
      ELSE [table |-> table, created |-> FALSE, raised |-> TRUE]

\* a loop body that inserts with Device.objects.create, without looking
LoadDeviceRecordCreate(acc, device_data, store_raises) ==
  IF store_raises
  THEN [acc EXCEPT !.errors = Append(@, "Device loading error")]
  ELSE [acc EXCEPT !.table = Append(@, device_data), !.loaded_count = @ + 1]

\* a loop body that overwrites the row found (update_or_create)
LoadDeviceRecordUpdate(acc, device_data, store_raises) ==
  LET r == get_or_create(acc.table, device_data.hostname, device_data)
  IN  IF store_raises \/ r.raised
      THEN [acc EXCEPT !.errors = Append(@, "Device loading error")]
      ELSE IF r.created
      THEN [acc EXCEPT !.table = r.table, !.loaded_count = @ + 1]
      ELSE [acc EXCEPT !.table = [i \in 1..Len(@) |->
                                    IF @[i].hostname = device_data.hostname
                                    THEN device_data ELSE @[i]]]

\* a loop body that counts every record it handled, created or found
LoadDeviceRecordCounting(acc, device_data, store_raises) ==
  LET r == get_or_create(acc.table, device_data.hostname, device_data)
  IN  IF store_raises \/ r.raised
      THEN [acc EXCEPT !.errors = Append(@, "Device loading error")]
      ELSE [acc EXCEPT !.table = r.table, !.loaded_count = @ + 1]

\* body of the loop of load_devices
LoadDeviceRecord(acc, device_data, store_raises) ==
  LET r == get_or_create(acc.table, device_data.hostname, device_data)
  IN  IF store_raises \/ r.raised
      THEN [acc EXCEPT !.errors = Append(@, "Device loading error")]
      ELSE IF r.created
      THEN [acc EXCEPT !.table = r.table, !.loaded_count = @ + 1]
      ELSE acc

\* body of the loop of load_security_events
LoadEventRecord(acc, event_data, store_raises) ==
  IF store_raises
  THEN [acc EXCEPT !.errors = Append(@, "Security event loading error")]
  ELSE [acc EXCEPT !.table = Append(@, event_data), !.loaded_count = @ + 1]

\* body of the loop of load_system_metrics
LoadMetricRecord(acc, metric_data, store_raises) ==
  IF store_raises
  THEN [acc EXCEPT !.errors = Append(@, "System metric loading error")]
  ELSE [acc EXCEPT !.table = Append(@, metric_data), !.loaded_count = @ + 1]

LoaderStart(table) == [table |-> table, loaded_count |-> 0, errors |-> <<>>, attempted |-> <<>>]

Attempt(acc, i) == [acc EXCEPT !.attempted = Append(@, i)]

RECURSIVE LoadDevicesFrom(_, _, _, _)
LoadDevicesFrom(i, devs, fails, acc) ==
  IF i > Len(devs) THEN acc
  ELSE LoadDevicesFrom(i + 1, devs, fails, LoadDeviceRecord(Attempt(acc, i), devs[i], i \in fails))

\* a device load that empties the Device table first, as setup_database does
load_devices_afresh(table, devs, fails) == LoadDevicesFrom(1, devs, fails, LoaderStart(<<>>))

load_devices(table, devs, fails) == LoadDevicesFrom(1, devs, fails, LoaderStart(table))

\* a loop whose try block is around the loop: the first failure ends it
RECURSIVE LoadEventsUntilFailure(_, _, _, _)
LoadEventsUntilFailure(i, evs, fails, acc) ==
  IF i > Len(evs) THEN acc
  ELSE IF i \in fails
  THEN [Attempt(acc, i) EXCEPT !.errors = Append(@, "Security event loading error")]
  ELSE LoadEventsUntilFailure(i + 1, evs, fails,
                              [Attempt(acc, i) EXCEPT !.table = Append(@, evs[i]),
                                                      !.loaded_count = @ + 1])

RECURSIVE LoadEventsFrom(_, _, _, _)
LoadEventsFrom(i, evs, fails, acc) ==
  IF i > Len(evs) THEN acc
  ELSE LoadEventsFrom(i + 1, evs, fails, LoadEventRecord(Attempt(acc, i), evs[i], i \in fails))

load_security_events(table, evs, fails) == LoadEventsFrom(1, evs, fails, LoaderStart(table))

RECURSIVE LoadMetricsFrom(_, _, _, _)
LoadMetricsFrom(i, ms, fails, acc) ==
  IF i > Len(ms) THEN acc
  ELSE LoadMetricsFrom(i + 1, ms, fails, LoadMetricRecord(Attempt(acc, i), ms[i], i \in fails))

load_system_metrics(table, ms, fails) == LoadMetricsFrom(1, ms, fails, LoaderStart(table))

(***************************************************************************)
(* The CSV files the environment can put in the working directory.         *)
(***************************************************************************)
AllDecode == {"utf-8", "latin-1", "cp1252"}
Missing == [state |-> "missing", decodes |-> {}, rows |-> <<>>]
Unreadable == [state |-> "unreadable", decodes |-> {}, rows |-> <<>>]
Utf8File(rows) == [state |-> "table", decodes |-> AllDecode, rows |-> rows]
\* bytes that are not valid UTF-8; Latin-1 decodes every byte sequence
Latin1File(rows) == [state |-> "table", decodes |-> {"latin-1", "cp1252"}, rows |-> rows]

InvRow(device, ip, role, os, notes) ==
  [Device |-> device, IP_Address |-> ip, Role |-> role, OS |-> os, Notes |-> notes]

InvRows ==
  { InvRow(Text("PC-02"), Text("10.0.0.102"), Text("Workstation"), Text("Win10"),
           Text("Outdated OS; no antivirus")),
    InvRow(Text(" PC-02"), Text("10.0.0.103 "), Text("Print Server"), Text("Win10"),
           Text("SSL update pending")),
    InvRow(Text("Router1"), Text("10.0.0.1"), Text("Core Router"), Text("Cisco IOS"), NaN),
    InvRow(Text("PC-03"), Text("256.1.1.1"), Text("PC Client"), NaN, Text("")) }

EvRow(event_type, user_id, product_id, amount) ==
  [event_type |-> event_type, user_id |-> user_id, product_id |-> product_id,
   amount |-> amount, event_time |-> Text("2023-01-01 10:00:00")]

EvRows ==
  { EvRow(Text("Login"), Num(7), NaN, NaN),
    EvRow(Text("checkout"), Num(8), Text("P1"), Num(25)),
    EvRow(Text("add_to_wishlist"), NaN, Text("P2"), Text("n/a")) }

MktRows == << [users_active |-> Num(10), total_sales |-> Num(250), new_customers |-> Num(2)] >>

RECURSIVE SeqsUpTo(_, _)
SeqsUpTo(S, n) ==
  IF n = 0 THEN {<<>>}
  ELSE SeqsUpTo(S, n - 1) \cup {Append(q, x) : q \in {t \in SeqsUpTo(S, n - 1) : Len(t) = n - 1}, x \in S}

InvTables == SeqsUpTo(InvRows, MaxRows)
EvTables == SeqsUpTo(EvRows, MaxEvents)

InvFiles == {Missing, Unreadable} \cup {Utf8File(t) : t \in InvTables}
              \cup {Latin1File(t) : t \in {q \in InvTables : Len(q) = 1}}
EvFiles == {Missing, Unreadable} \cup {Utf8File(t) : t \in EvTables}
              \cup {Latin1File(t) : t \in {q \in EvTables : Len(q) = 1}}
SpacedFiles ==
  {Missing, Unreadable,
   Utf8File(<<EvRow(Text("profile_view"), Num(9), NaN, Num(0))>>),
   Utf8File(<<EvRow(Text("add_to_wishlist"), Num(9), Text("P2"), NaN)>>)}
MktFiles == {Missing, Unreadable, Utf8File(MktRows), Latin1File(MktRows)}

FileSet(inv, exact, spaced, mkt) ==
  [inventory |-> inv, event_logs |-> exact, event_logs_spaced |-> spaced, marketing |-> mkt]

BaseInv == Utf8File(<<InvRow(Text("Router1"), Text("10.0.0.1"), Text("Core Router"),
                             Text("Cisco IOS"), NaN)>>)
BaseEv == Utf8File(<<>>)
BaseMkt == Utf8File(MktRows)

\* the working directories of the model: each file varied against a fixed
\* rest, the two event-log names varied together, and the empty directory
InventoryCases == {FileSet(f, BaseEv, Missing, BaseMkt) : f \in InvFiles}

OtherCases ==
  {FileSet(BaseInv, f, Missing, BaseMkt) : f \in EvFiles}
    \cup {FileSet(BaseInv, f, g, BaseMkt) :
             f \in {Missing, Unreadable, Latin1File(<<>>)}, g \in SpacedFiles}
    \cup {FileSet(BaseInv, BaseEv, Missing, f) : f \in MktFiles}
    \cup {FileSet(Missing, Missing, Missing, Missing)}

FileSets == InventoryCases \cup OtherCases

\* the ways the store can fail during one loader call over n records: at
\* the first record, at the last one, at every one
FailureCases(n) == IF n = 0 THEN {} ELSE {{1}, {n}, 1..n}

\* the failure sets open to a loader call when used of the run's budget is spent
FailSets(n, used) == IF used < MaxFaults THEN {{}} \cup FailureCases(n) ELSE {{}}

(***************************************************************************)
(* State.                                                                  *)
(***************************************************************************)
\* the store's tables
VARIABLES devices, events, metrics, activities, users
\* the working directory
VARIABLE files
\* main(): position in run_pipeline, and the value main returns
VARIABLES pc, exit_code
\* fields of the pipeline object
VARIABLES errors, processed_records
\* locals of run_pipeline
VARIABLES raw_devices_df, raw_events_df, raw_marketing_df
VARIABLES cleaned_devices, cleaned_events, system_metrics, summary
\* the statement at which an exception left run_pipeline
VARIABLE raised
\* history: failures injected into this run; bulk deletes and row inserts of
\* this run; what the last loader call did; the store when this run began;
\* the store left by the first undisturbed run over the files
VARIABLES faults, cleared, inserts, last_load, start, baseline
\* history: the statements of run_pipeline this run has completed, in order
VARIABLE trace
\* the last call of a utility method made on its own: <<>> before any, else
\* one record of the method, its argument and what it returned
VARIABLE call
\* a second process running main() against the same store and directory:
\* its position in run_pipeline, its position in the loop of load_devices
\* (creating: between the lookup and the insert of get_or_create), and the
\* locals it loads from
VARIABLE peer

store == <<devices, events, metrics, activities, users>>
object == <<errors, processed_records>>
locals == <<raw_devices_df, raw_events_df, raw_marketing_df,
            cleaned_devices, cleaned_events, system_metrics, summary>>
history == <<cleared, inserts, last_load, start, baseline>>
\* the directory and everything that belongs to the first process
process == <<files, pc, exit_code, object, locals, raised, faults, history, trace, call>>
vars == <<store, files, pc, exit_code, object, locals, raised, faults, history, trace, call,
          peer>>

\* no second process
NoPeer == [pc |-> "absent", i |-> 0, creating |-> FALSE, cleaned_devices |-> <<>>,
           cleaned_events |-> <<>>, system_metrics |-> <<>>]

\* run_pipeline with the SystemMetrics delete moved after the loads
StepOrderLateClear ==
  << "clear_events", "clear_activities", "create_admin_user",
     "extract_network_inventory", "extract_event_logs", "extract_marketing_data",
     "clean_network_inventory", "clean_event_logs", "generate_system_metrics",
     "load_devices", "load_security_events", "load_system_metrics", "clear_metrics",
     "build_summary", "save_pipeline_report" >>

\* run_pipeline taking the sources one at a time
StepOrderBySource ==
  << "clear_events", "clear_metrics", "clear_activities", "create_admin_user",
     "extract_network_inventory", "clean_network_inventory", "load_devices",
     "extract_event_logs", "clean_event_logs", "load_security_events",
     "extract_marketing_data", "generate_system_metrics", "load_system_metrics",
     "build_summary", "save_pipeline_report" >>

\* run_pipeline without the UserActivity delete
StepOrderKeepActivities ==
  << "clear_events", "clear_metrics", "create_admin_user",
     "extract_network_inventory", "extract_event_logs", "extract_marketing_data",
     "clean_network_inventory", "clean_event_logs", "generate_system_metrics",
     "load_devices", "load_security_events", "load_system_metrics",
     "build_summary", "save_pipeline_report" >>

\* the statements of run_pipeline, in program order
StepOrder ==
  << "clear_events", "clear_metrics", "clear_activities", "create_admin_user",
     "extract_network_inventory", "extract_event_logs", "extract_marketing_data",
     "clean_network_inventory", "clean_event_logs", "generate_system_metrics",
     "load_devices", "load_security_events", "load_system_metrics",
     "build_summary", "save_pipeline_report" >>

StepIndex(step) == CHOOSE i \in 1..Len(StepOrder) : StepOrder[i] = step

\* the statement after step; "done" after the last one (return summary)
After(step) ==
  IF StepIndex(step) = Len(StepOrder) THEN "done" ELSE StepOrder[StepIndex(step) + 1]

NoCounts == [devices |-> 0, security_events |-> 0, user_activities |-> 0,
             system_metrics |-> 0, products |-> 0]

NoneCleared == [events |-> 0, metrics |-> 0, activities |-> 0]

\* what is remembered of the store a run leaves
StoreLeft(completed) ==
  [devices |-> devices, events |-> Len(events), metrics |-> Len(metrics),
   activities |-> Len(activities), completed |-> completed]

\* what is remembered of the store a run starts from
StartOf(earlier) ==
  [devices |-> devices,
   empty |-> devices = <<>> /\ events = <<>> /\ metrics = <<>> /\ activities = <<>>,
   stale |-> events # <<>> /\ metrics # <<>> /\ activities # <<>>,
   rerun |-> earlier # <<>>]

\* load_security_events of database_setup.py, the other writer of the
\* SecurityEvent table: the categories it gives the rows of an event log
SetupCategorize(event_type) ==
  IF Contains("login", event_type) THEN <<"login_failure", "critical", TRUE>>
  ELSE IF Contains("checkout", event_type) THEN <<"transaction", "info", FALSE>>
  ELSE IF Contains("wishlist", event_type) THEN <<"suspicious_activity", "warning", TRUE>>
  ELSE <<"user_activity", "info", FALSE>>

\* random.randint(1, 254) draws from 1..254; the model draws the two ends
SetupOctets == {1, 254}

\* the SecurityEvent row it creates for one row of the file
SetupEventRow(row, octet) ==
  LET event_type == Lower(Str(RowGet(row, "event_type", Text("unknown"))))
      user_id == Str(RowGet(row, "user_id", Text("")))
      product_id == Str(RowGet(row, "product_id", Text("")))
      amount == RowGet(row, "amount", Num(0))
      cat == SetupCategorize(event_type)
      d0 == "Event: " \o event_type
      d1 == IF Len(user_id) > 0 THEN d0 \o " | User: " \o user_id ELSE d0
      d2 == IF Len(product_id) > 0 THEN d1 \o " | Product: " \o product_id ELSE d1
      d3 == IF AmountPositive(amount)
            THEN d2 \o " | Amount: $" \o NatStr(amount.num) \o ".00" ELSE d2
  IN  [event_type |-> cat[1],
       severity |-> cat[2],
       source_ip |-> (IF cat[3] THEN "203.0.113." ELSE "192.168.1.") \o NatStr(octet),
       details |-> d3,
       is_threat |-> cat[3]]

\* the events it adds whatever the file holds
SetupCriticalEvents ==
  { [event_type |-> "login_failure", severity |-> "critical", source_ip |-> "203.0.113.15",
     details |-> "Multiple failed login attempts detected (50+ attempts)", is_threat |-> TRUE],
    [event_type |-> "malware_detected", severity |-> "critical", source_ip |-> "10.0.0.102",
     details |-> "Malware signature detected on PC-Client-02", is_threat |-> TRUE],
    [event_type |-> "ddos_attack", severity |-> "critical", source_ip |-> "198.51.100.1",
     details |-> "DDoS attack detected from external sources", is_threat |-> TRUE],
    [event_type |-> "unauthorized_access", severity |-> "warning", source_ip |-> "192.168.1.45",
     details |-> "Unauthorized admin panel access attempt", is_threat |-> TRUE] }

\* the SecurityEvent rows a run can find in the store
StaleEvents ==
  SetupCriticalEvents
    \cup {SetupEventRow(row, octet) :
            row \in {r \in EvRows : ~AmountRaises(r.amount)}, octet \in SetupOctets}

\* rows the three cleared tables can hold before a run
StaleActivity == [event_type |-> "page_view", ip_address |-> "192.168.1.7"]
StaleEvent == [event_type |-> "ddos_attack", severity |-> "critical",
               source_ip |-> "198.51.100.1",
               details |-> "DDoS attack detected from external sources",
               is_threat |-> TRUE]

\* the Device tables earlier runs over other inventories leave behind
EarlierDevices ==
  {load_devices(<<>>, clean_network_inventory(t), {}).table : t \in InvTables}

Init ==
  /\ files \in FileSets
  /\ devices \in IF files \in InventoryCases THEN EarlierDevices ELSE {<<>>}
  /\ \E n \in 0..MaxStale :
       /\ \E e \in StaleEvents : events = [i \in 1..n |-> e]
       /\ metrics = [i \in 1..n |-> MetricSample]
       /\ activities = [i \in 1..n |-> StaleActivity]
  /\ users = {}
  /\ pc = "idle"
  /\ exit_code = <<>>
  /\ errors = <<>>
  /\ processed_records = NoCounts
  /\ raw_devices_df = <<>>
  /\ raw_events_df = <<>>
  /\ raw_marketing_df = <<>>
  /\ cleaned_devices = <<>>
  /\ cleaned_events = <<>>
  /\ system_metrics = <<>>
  /\ summary = <<>>
  /\ raised = "none"
  /\ faults = 0
  /\ cleared = NoneCleared
  /\ inserts = 0
  /\ last_load = <<>>
  /\ start = <<>>
  /\ baseline = <<>>
  /\ trace = <<>>
  /\ call = <<>>
  /\ peer = NoPeer

(***************************************************************************)
(* main() and run_pipeline, one action per statement of run_pipeline.      *)
(***************************************************************************)
Resting == pc \in {"idle", "done", "failed"}

\* main(): pipeline = FinMarkETLPipeline(); pipeline.run_pipeline()
StartRun ==
  /\ Resting
  /\ pc' = StepOrder[1]
  /\ exit_code' = <<>>
  /\ errors' = <<>>
  /\ processed_records' = NoCounts
  /\ raw_devices_df' = <<>>
  /\ raw_events_df' = <<>>
  /\ raw_marketing_df' = <<>>
  /\ cleaned_devices' = <<>>
  /\ cleaned_events' = <<>>
  /\ system_metrics' = <<>>
  /\ summary' = <<>>
  /\ raised' = "none"
  /\ faults' = 0
  /\ cleared' = NoneCleared
  /\ inserts' = 0
  /\ last_load' = <<>>
  /\ start' = <<StartOf(baseline)>>
  /\ trace' = <<>>
  /\ UNCHANGED <<call, peer, store, files, baseline>>

\* the statement step completes and control moves to the next one
Advance(step) ==
  /\ pc' = After(step)
  /\ trace' = Append(trace, step)

\* the run ends: the store it leaves is the baseline when it is the first
\* undisturbed run over these files
Ending(disturbed, completed) ==
  baseline' = IF baseline = <<>> /\ ~disturbed THEN <<StoreLeft(completed)>> ELSE baseline

\* a main that logs the exception and returns 0 all the same
EscapesUnnoticed(step) ==
  /\ pc' = "failed"
  /\ raised' = step
  /\ exit_code' = <<0>>
  /\ trace' = trace

\* an exception leaves run_pipeline at step; main returns 1
Escapes(step) ==
  /\ pc' = "failed"
  /\ raised' = step
  /\ exit_code' = <<1>>
  /\ trace' = trace

\* the store or the file system fails under the statement step, which has
\* no handler
Fails(step) ==
  /\ faults < MaxFaults
  /\ faults' = faults + 1
  /\ Escapes(step)
  /\ Ending(TRUE, FALSE)
  /\ UNCHANGED <<call, peer, store, files, object, locals, cleared, inserts, last_load, start>>

\* a bulk delete that deletes nothing
delete_none(table) == table

\* Model.objects.all().delete()
delete_all(table) == <<>>

ClearEvents ==
  /\ pc = "clear_events"
  /\ \/ /\ events' = delete_all(events)
        /\ cleared' = [cleared EXCEPT !.events = @ + 1]
        /\ Advance("clear_events")
        /\ UNCHANGED <<call, peer, devices, metrics, activities, users, files, exit_code, object,
                       locals, raised, faults, inserts, last_load, start, baseline>>
     \/ Fails("clear_events")

ClearMetrics ==
  /\ pc = "clear_metrics"
  /\ \/ /\ metrics' = delete_all(metrics)
        /\ cleared' = [cleared EXCEPT !.metrics = @ + 1]
        /\ Advance("clear_metrics")
        /\ UNCHANGED <<call, peer, devices, events, activities, users, files, exit_code, object,
                       locals, raised, faults, inserts, last_load, start, baseline>>
     \/ Fails("clear_metrics")

ClearActivities ==
  /\ pc = "clear_activities"
  /\ \/ /\ activities' = delete_all(activities)
        /\ cleared' = [cleared EXCEPT !.activities = @ + 1]
        /\ Advance("clear_activities")
        /\ UNCHANGED <<call, peer, devices, events, metrics, users, files, exit_code, object,
                       locals, raised, faults, inserts, last_load, start, baseline>>
     \/ Fails("clear_activities")

\* User.objects.get_or_create(username='admin', ...)
CreateAdminUser ==
  /\ pc = "create_admin_user"
  /\ \/ /\ users' = users \cup {"admin"}
        /\ Advance("create_admin_user")
        /\ UNCHANGED <<call, peer, devices, events, metrics, activities, files, exit_code, object,
                       locals, raised, faults, history>>
     \/ Fails("create_admin_user")

ExtractNetworkInventory ==
  /\ pc = "extract_network_inventory"
  /\ \E r \in {extract_network_inventory(files.inventory)} :
       /\ raw_devices_df' = r.df
       /\ errors' = errors \o r.errors
  /\ Advance("extract_network_inventory")
  /\ UNCHANGED <<call, peer, store, files, exit_code, processed_records, raw_events_df,
                 raw_marketing_df, cleaned_devices, cleaned_events, system_metrics,
                 summary, raised, faults, history>>

ExtractEventLogs ==
  /\ pc = "extract_event_logs"
  /\ \E r \in {extract_event_logs(files.event_logs, files.event_logs_spaced)} :
       IF r.raised
       THEN /\ Escapes("extract_event_logs")
            /\ Ending(faults > 0, FALSE)
            /\ UNCHANGED <<raw_events_df, errors, cleared, inserts, last_load, start>>
       ELSE /\ raw_events_df' = r.df
            /\ errors' = errors \o r.errors
            /\ Advance("extract_event_logs")
            /\ UNCHANGED <<exit_code, raised, history>>
  /\ UNCHANGED <<call, peer, store, files, processed_records, raw_devices_df, raw_marketing_df,
                 cleaned_devices, cleaned_events, system_metrics, summary, faults>>

ExtractMarketingData ==
  /\ pc = "extract_marketing_data"
  /\ \E r \in {extract_marketing_data(files.marketing)} :
       /\ raw_marketing_df' = r.df
       /\ errors' = errors \o r.errors
  /\ Advance("extract_marketing_data")
  /\ UNCHANGED <<call, peer, store, files, exit_code, processed_records, raw_devices_df,
                 raw_events_df, cleaned_devices, cleaned_events, system_metrics,
                 summary, raised, faults, history>>

CleanNetworkInventory ==
  /\ pc = "clean_network_inventory"
  /\ cleaned_devices' = clean_network_inventory(raw_devices_df)
  /\ Advance("clean_network_inventory")
  /\ UNCHANGED <<call, peer, store, files, exit_code, object, raw_devices_df, raw_events_df,
                 raw_marketing_df, cleaned_events, system_metrics, summary, raised,
                 faults, history>>

CleanEventLogs ==
  /\ pc = "clean_event_logs"
  /\ \E octets \in [1..Len(raw_events_df) -> SourceOctets] :
       cleaned_events' = clean_event_logs(raw_events_df, octets)
  /\ Advance("clean_event_logs")
  /\ UNCHANGED <<call, peer, store, files, exit_code, object, raw_devices_df, raw_events_df,
                 raw_marketing_df, cleaned_devices, system_metrics, summary, raised,
                 faults, history>>

GenerateSystemMetrics ==
  /\ pc = "generate_system_metrics"
  /\ system_metrics' = generate_system_metrics(cleaned_devices)
  /\ Advance("generate_system_metrics")
  /\ UNCHANGED <<call, peer, store, files, exit_code, object, raw_devices_df, raw_events_df,
                 raw_marketing_df, cleaned_devices, cleaned_events, summary, raised,
                 faults, history>>

\* what a loader call did: its input size, the positions at which the store
\* failed, the positions it tried, the count it returned, the entries it
\* appended to self.errors, the rows it added
LoadRecord(name, input, fails, r, before) ==
  << [loader |-> name, input |-> Len(input), fails |-> fails, attempted |-> r.attempted,
      returned |-> r.loaded_count, new_errors |-> Len(r.errors),
      added |-> Len(r.table) - Len(before)] >>

\* self.processed_records['devices'] = self.load_devices(cleaned_devices),
\* the store failing at one of the sets of positions failsets
LoadDevicesWhen(failsets) ==
  /\ pc = "load_devices"
  /\ \E fails \in failsets :
       \E r \in {load_devices(devices, cleaned_devices, fails)} :
         /\ devices' = r.table
         /\ processed_records' = [processed_records EXCEPT !.devices = r.loaded_count]
         /\ errors' = errors \o r.errors
         /\ faults' = IF fails = {} THEN faults ELSE faults + 1
         /\ last_load' = LoadRecord("load_devices", cleaned_devices, fails, r, devices)
  /\ Advance("load_devices")
  /\ UNCHANGED <<call, peer, events, metrics, activities, users, files, exit_code, locals, raised,
                 cleared, inserts, start, baseline>>

LoadSecurityEventsWhen(failsets) ==
  /\ pc = "load_security_events"
  /\ \E fails \in failsets :
       \E r \in {load_security_events(events, cleaned_events, fails)} :
         /\ events' = r.table
         /\ processed_records' = [processed_records EXCEPT !.security_events = r.loaded_count]
         /\ errors' = errors \o r.errors
         /\ faults' = IF fails = {} THEN faults ELSE faults + 1
         /\ last_load' = LoadRecord("load_security_events", cleaned_events, fails, r, events)
         /\ inserts' = inserts + Len(r.attempted)
  /\ Advance("load_security_events")
  /\ UNCHANGED <<call, peer, devices, metrics, activities, users, files, exit_code, locals, raised,
                 cleared, start, baseline>>

LoadSystemMetricsWhen(failsets) ==
  /\ pc = "load_system_metrics"
  /\ \E fails \in failsets :
       \E r \in {load_system_metrics(metrics, system_metrics, fails)} :
         /\ metrics' = r.table
         /\ processed_records' = [processed_records EXCEPT !.system_metrics = r.loaded_count]
         /\ errors' = errors \o r.errors
         /\ faults' = IF fails = {} THEN faults ELSE faults + 1
         /\ last_load' = LoadRecord("load_system_metrics", system_metrics, fails, r, metrics)
         /\ inserts' = inserts + Len(r.attempted)
  /\ Advance("load_system_metrics")
  /\ UNCHANGED <<call, peer, devices, events, activities, users, files, exit_code, locals, raised,
                 cleared, start, baseline>>

LoadDevices == LoadDevicesWhen(FailSets(Len(cleaned_devices), faults))

LoadSecurityEvents == LoadSecurityEventsWhen(FailSets(Len(cleaned_events), faults))

LoadSystemMetrics == LoadSystemMetricsWhen(FailSets(Len(system_metrics), faults))

\* a summary that reports by the records loaded and shows the latest errors
MakeSummaryLatest(errs, recs) ==
  [pipeline_status |-> IF recs.devices + recs.security_events + recs.system_metrics > 0
                       THEN "SUCCESS" ELSE "COMPLETED_WITH_WARNINGS",
   records_processed |-> recs,
   total_records |-> recs.devices + recs.security_events + recs.user_activities
                       + recs.system_metrics + recs.products,
   errors_count |-> Len(errs),
   errors |-> SubSeq(errs, Len(errs) - Min(ErrorsShown, Len(errs)) + 1, Len(errs))]

\* summary = {...}
MakeSummary(errs, recs) ==
  [pipeline_status |-> IF errs = <<>> THEN "SUCCESS" ELSE "COMPLETED_WITH_WARNINGS",
   records_processed |-> recs,
   total_records |-> recs.devices + recs.security_events + recs.user_activities
                       + recs.system_metrics + recs.products,
   errors_count |-> Len(errs),
   errors |-> SubSeq(errs, 1, Min(ErrorsShown, Len(errs)))]

BuildSummary ==
  /\ pc = "build_summary"
  /\ summary' = <<MakeSummary(errors, processed_records)>>
  /\ Advance("build_summary")
  /\ UNCHANGED <<call, peer, store, files, exit_code, object, raw_devices_df, raw_events_df,
                 raw_marketing_df, cleaned_devices, cleaned_events, system_metrics,
                 raised, faults, history>>

\* self._save_pipeline_report(summary); return summary; main returns 0
SavePipelineReport ==
  /\ pc = "save_pipeline_report"
  /\ \/ /\ Advance("save_pipeline_report")
        /\ exit_code' = <<0>>
        /\ Ending(faults > 0, TRUE)
        /\ UNCHANGED <<call, peer, store, files, object, locals, raised, faults,
                       cleared, inserts, last_load, start>>
     \/ Fails("save_pipeline_report")

Next ==
  \/ StartRun
  \/ ClearEvents
  \/ ClearMetrics
  \/ ClearActivities
  \/ CreateAdminUser
  \/ ExtractNetworkInventory
  \/ ExtractEventLogs
  \/ ExtractMarketingData
  \/ CleanNetworkInventory
  \/ CleanEventLogs
  \/ GenerateSystemMetrics
  \/ LoadDevices
  \/ LoadSecurityEvents
  \/ LoadSystemMetrics
  \/ BuildSummary
  \/ SavePipelineReport

Spec == Init /\ [][Next]_vars

(***************************************************************************)
(* The loaders called on their own: load_security_events and then          *)
(* load_system_metrics, each over any list of at most MaxBatch records,    *)
(* the store failing at any set of positions.                              *)
(***************************************************************************)
BatchEvents ==
  {CleanEventRow(row, RandLow)[1] : row \in {r \in EvRows : CleanEventRow(r, RandLow) # <<>>}}

LoaderInit ==
  /\ devices = <<>>
  /\ \E n \in 0..MaxStale :
       /\ events = [i \in 1..n |-> StaleEvent]
       /\ metrics = [i \in 1..n |-> MetricSample]
       /\ activities = [i \in 1..n |-> StaleActivity]
  /\ users = {}
  /\ files = FileSet(Missing, Missing, Missing, Missing)
  /\ pc = "load_security_events"
  /\ exit_code = <<>>
  /\ errors \in {<<>>, <<"Event logs extraction">>}
  /\ processed_records = NoCounts
  /\ raw_devices_df = <<>>
  /\ raw_events_df = <<>>
  /\ raw_marketing_df = <<>>
  /\ cleaned_devices = <<>>
  /\ cleaned_events \in SeqsUpTo(BatchEvents, MaxBatch)
  /\ system_metrics \in SeqsUpTo({MetricSample}, MaxBatch)
  /\ summary = <<>>
  /\ raised = "none"
  /\ faults = 0
  /\ cleared = NoneCleared
  /\ inserts = 0
  /\ last_load = <<>>
  /\ start = <<>>
  /\ baseline = <<>>
  /\ trace = <<>>
  /\ call = <<>>
  /\ peer = NoPeer

CallLoadSecurityEvents == LoadSecurityEventsWhen(SUBSET (1..Len(cleaned_events)))

CallLoadSystemMetrics == LoadSystemMetricsWhen(SUBSET (1..Len(system_metrics)))

LoaderNext ==
  \/ CallLoadSecurityEvents
  \/ CallLoadSystemMetrics

LoaderSpec == LoaderInit /\ [][LoaderNext]_vars

(***************************************************************************)
(* The utility methods called on their own, each on any text made of at    *)
(* most MaxWords of the words below.                                       *)
(***************************************************************************)
RECURSIVE TextsOf(_, _)
TextsOf(words, n) ==
  IF n = 0 THEN {""}
  ELSE TextsOf(words, n - 1) \cup {t \o w : t \in TextsOf(words, n - 1), w \in words}

RoleWords == {"Router", "SERVER", "printer", "pc", "Client", "switch", " "}
NoteWords == {"No Antivirus", "OUTDATED", "no firewall", "vulnerable",
              "ssl", "TLS", "Update", "patch", "ok", " "}
EventWords == {"Login", "checkout", "WISHLIST", "profile", "view", "_"}

Roles == TextsOf(RoleWords, MaxWords)
Notes == TextsOf(NoteWords, MaxWords)
EventTypes == TextsOf(EventWords, MaxWords)

\* the groups an address is made of, and the addresses: every text of four
\* groups, and texts with fewer or more groups or with white space around
IpGroups == {"0", "1", "255", "256", "abc", ""}
IpStrings ==
  {a \o "." \o b \o "." \o c \o "." \o d : a, b, c, d \in IpGroups}
    \cup {"1.2.3", "abc.def.gh.i", "1.1.1.1.1", "1.1.1.1\n", " 1.1.1.1", "1.1.1.1 ",
          "0001.1.1.1", "1..1.1.1", ""}

\* the hours of a day at the ends of the business hours, the values a draw
\* of the noise can take, and the device lists handed to the generator
SampleHours == {0, 7, 8, 18, 19, 23}
NoiseValues == {n \in -MaxNoise..MaxNoise : n % 40 = 0}
Noises == [cpu : NoiseValues, memory : NoiseValues, response : NoiseValues]
MetricDevices == {<<>>} \cup {CleanDeviceRow(row) : row \in InvRows}

UtilityInit ==
  /\ devices = <<>>
  /\ events = <<>>
  /\ metrics = <<>>
  /\ activities = <<>>
  /\ users = {}
  /\ files = FileSet(Missing, Missing, Missing, Missing)
  /\ pc = "idle"
  /\ exit_code = <<>>
  /\ errors = <<>>
  /\ processed_records = NoCounts
  /\ raw_devices_df = <<>>
  /\ raw_events_df = <<>>
  /\ raw_marketing_df = <<>>
  /\ cleaned_devices = <<>>
  /\ cleaned_events = <<>>
  /\ system_metrics = <<>>
  /\ summary = <<>>
  /\ raised = "none"
  /\ faults = 0
  /\ cleared = NoneCleared
  /\ inserts = 0
  /\ last_load = <<>>
  /\ start = <<>>
  /\ baseline = <<>>
  /\ trace = <<>>
  /\ call = <<>>
  /\ peer = NoPeer

\* the method has been called with argument and has returned result
Called(method, argument, result) ==
  /\ call' = <<[method |-> method, argument |-> argument, result |-> result]>>
  /\ UNCHANGED <<store, files, pc, exit_code, object, locals, raised, faults, history, trace,
                 peer>>

CallValidateIpAddress ==
  /\ call = <<>>
  /\ \E ip \in IpStrings : Called("_validate_ip_address", ip, _validate_ip_address(ip))

CallCategorizeDeviceType ==
  /\ call = <<>>
  /\ \E role \in Roles :
       Called("_categorize_device_type", role, _categorize_device_type(role))

CallDetermineDeviceStatus ==
  /\ call = <<>>
  /\ \E notes \in Notes :
       Called("_determine_device_status", notes, _determine_device_status(notes))

CallCategorizeSecurityEvent ==
  /\ call = <<>>
  /\ \E event_type \in EventTypes :
       Called("_categorize_security_event", event_type,
              _categorize_security_event(event_type))

CallGenerateSystemMetrics ==
  /\ call = <<>>
  /\ \E devs \in MetricDevices, hour_of_day \in SampleHours, noise \in Noises :
       Called("generate_system_metrics",
              [devs |-> devs, hour_of_day |-> hour_of_day, noise |-> noise],
              GenerateMetric(devs, hour_of_day, noise))

UtilityNext ==
  \/ CallValidateIpAddress
  \/ CallCategorizeDeviceType
  \/ CallDetermineDeviceStatus
  \/ CallCategorizeSecurityEvent
  \/ CallGenerateSystemMetrics

UtilitySpec == UtilityInit /\ [][UtilityNext]_vars

(***************************************************************************)
(* Two processes running main() at once on the same store and directory.   *)
(* run_pipeline opens no transaction and takes no lock, so the statements  *)
(* of the two runs interleave; get_or_create is a lookup followed by an    *)
(* insert, and Device.hostname carries no unique constraint, so the rows   *)
(* of the two load_devices loops interleave between the two.  The first    *)
(* process takes the actions of Spec; the second one is peer.              *)
(***************************************************************************)
\* the directories of the concurrent runs: an inventory of fewer than MaxRows
\* rows, and an event log of one row at most or one that cannot be read
ConcurrentFiles ==
  {FileSet(Utf8File(t), f, Missing, BaseMkt) :
     t \in {q \in InvTables : Len(q) < MaxRows},
     f \in {Unreadable} \cup {Utf8File(q) : q \in {e \in EvTables : Len(e) <= 1}}}

ConcurrentInit ==
  /\ files \in ConcurrentFiles
  /\ devices = <<>>
  /\ events = <<>>
  /\ metrics = <<>>
  /\ activities = <<>>
  /\ users = {}
  /\ pc = StepOrder[1]
  /\ exit_code = <<>>
  /\ errors = <<>>
  /\ processed_records = NoCounts
  /\ raw_devices_df = <<>>
  /\ raw_events_df = <<>>
  /\ raw_marketing_df = <<>>
  /\ cleaned_devices = <<>>
  /\ cleaned_events = <<>>
  /\ system_metrics = <<>>
  /\ summary = <<>>
  /\ raised = "none"
  /\ faults = 0
  /\ cleared = NoneCleared
  /\ inserts = 0
  /\ last_load = <<>>
  /\ start = <<[devices |-> <<>>, empty |-> TRUE, stale |-> FALSE, rerun |-> FALSE]>>
  /\ baseline = <<>>
  /\ trace = <<>>
  /\ call = <<>>
  /\ peer = [NoPeer EXCEPT !.pc = StepOrder[1], !.i = 1]

\* the second process with its statement completed
PeerAfter(p) == [p EXCEPT !.pc = After(p.pc)]

\* SecurityEvent / SystemMetrics / UserActivity .objects.all().delete()
PeerClear ==
  /\ peer.pc \in {"clear_events", "clear_metrics", "clear_activities"}
  /\ events' = IF peer.pc = "clear_events" THEN delete_all(events) ELSE events
  /\ metrics' = IF peer.pc = "clear_metrics" THEN delete_all(metrics) ELSE metrics
  /\ activities' = IF peer.pc = "clear_activities" THEN delete_all(activities) ELSE activities
  /\ peer' = PeerAfter(peer)
  /\ UNCHANGED <<devices, users, process>>

PeerCreateAdminUser ==
  /\ peer.pc = "create_admin_user"
  /\ users' = users \cup {"admin"}
  /\ peer' = PeerAfter(peer)
  /\ UNCHANGED <<devices, events, metrics, activities, process>>

\* the three extract_* statements: they read the directory only; an event
\* log that cannot be read ends the second run
PeerExtract ==
  /\ peer.pc \in {"extract_network_inventory", "extract_event_logs", "extract_marketing_data"}
  /\ peer' = IF /\ peer.pc = "extract_event_logs"
                /\ extract_event_logs(files.event_logs, files.event_logs_spaced).raised
             THEN [peer EXCEPT !.pc = "failed"]
             ELSE PeerAfter(peer)
  /\ UNCHANGED <<store, process>>

\* clean_network_inventory, clean_event_logs and generate_system_metrics
\* over what the second process extracted
PeerTransform ==
  /\ peer.pc \in {"clean_network_inventory", "clean_event_logs", "generate_system_metrics"}
  /\ LET raw_devices == extract_network_inventory(files.inventory).df
         raw_events == extract_event_logs(files.event_logs, files.event_logs_spaced).df
     IN  IF peer.pc = "clean_network_inventory"
         THEN peer' = PeerAfter([peer EXCEPT
                                   !.cleaned_devices = clean_network_inventory(raw_devices)])
         ELSE IF peer.pc = "clean_event_logs"
         THEN \E octets \in [1..Len(raw_events) -> SourceOctets] :
                peer' = PeerAfter([peer EXCEPT
                                     !.cleaned_events = clean_event_logs(raw_events, octets)])
         ELSE peer' = PeerAfter([peer EXCEPT
                                   !.system_metrics = generate_system_metrics(peer.cleaned_devices)])
  /\ UNCHANGED <<store, process>>

\* load_devices, the lookup of get_or_create for the row at peer.i: no row
\* found leads to the insert, a row (or several: the error is recorded) to
\* the next row; after the last row the loop ends
PeerGetDevice ==
  /\ peer.pc = "load_devices"
  /\ ~peer.creating
  /\ peer' = IF peer.i > Len(peer.cleaned_devices) THEN PeerAfter(peer)
             ELSE IF WithHostname(devices, peer.cleaned_devices[peer.i].hostname) = {}
             THEN [peer EXCEPT !.creating = TRUE]
             ELSE [peer EXCEPT !.i = @ + 1]
  /\ UNCHANGED <<store, process>>

\* load_devices, the insert of get_or_create for the row at peer.i
PeerCreateDevice ==
  /\ peer.pc = "load_devices"
  /\ peer.creating
  /\ devices' = Append(devices, peer.cleaned_devices[peer.i])
  /\ peer' = [peer EXCEPT !.creating = FALSE, !.i = @ + 1]
  /\ UNCHANGED <<events, metrics, activities, users, process>>

PeerLoadSecurityEvents ==
  /\ peer.pc = "load_security_events"
  /\ events' = load_security_events(events, peer.cleaned_events, {}).table
  /\ peer' = PeerAfter(peer)
  /\ UNCHANGED <<devices, metrics, activities, users, process>>

PeerLoadSystemMetrics ==
  /\ peer.pc = "load_system_metrics"
  /\ metrics' = load_system_metrics(metrics, peer.system_metrics, {}).table
  /\ peer' = PeerAfter(peer)
  /\ UNCHANGED <<devices, events, activities, users, process>>

\* the summary and the report of the second process
PeerFinish ==
  /\ peer.pc \in {"build_summary", "save_pipeline_report"}
  /\ peer' = PeerAfter(peer)
  /\ UNCHANGED <<store, process>>

ConcurrentNext ==
  \/ ClearEvents
  \/ ClearMetrics
  \/ ClearActivities
  \/ CreateAdminUser
  \/ ExtractNetworkInventory
  \/ ExtractEventLogs
  \/ ExtractMarketingData
  \/ CleanNetworkInventory
  \/ CleanEventLogs
  \/ GenerateSystemMetrics
  \/ LoadDevices
  \/ LoadSecurityEvents
  \/ LoadSystemMetrics
  \/ BuildSummary
  \/ SavePipelineReport
  \/ PeerClear
  \/ PeerCreateAdminUser
  \/ PeerExtract
  \/ PeerTransform
  \/ PeerGetDevice
  \/ PeerCreateDevice
  \/ PeerLoadSecurityEvents
  \/ PeerLoadSystemMetrics
  \/ PeerFinish

ConcurrentSpec == ConcurrentInit /\ [][ConcurrentNext]_vars

(***************************************************************************)
(* Phases of a run.                                                        *)
(***************************************************************************)
Phases == <<"INIT", "EXTRACTING", "TRANSFORMING", "LOADING", "SUMMARIZING", "DONE">>

\* the phase a statement of run_pipeline belongs to (the section banners)
PhaseOf(step) ==
  IF step \in {"clear_events", "clear_metrics", "clear_activities", "create_admin_user"}
  THEN "INIT"
  ELSE IF step \in {"extract_network_inventory", "extract_event_logs",
                    "extract_marketing_data"}
  THEN "EXTRACTING"
  ELSE IF step \in {"clean_network_inventory", "clean_event_logs", "generate_system_metrics"}
  THEN "TRANSFORMING"
  ELSE IF step \in {"load_devices", "load_security_events", "load_system_metrics"}
  THEN "LOADING"
  ELSE IF step \in {"build_summary", "save_pipeline_report"}
  THEN "SUMMARIZING"
  ELSE "DONE"

PhaseRank(step) == CHOOSE i \in 1..Len(Phases) : Phases[i] = PhaseOf(step)

Completed(step) == \E i \in 1..Len(trace) : trace[i] = step

Running == ~Resting

Ended == pc \in {"done", "failed"}

(***************************************************************************)
(* Properties.                                                             *)
(***************************************************************************)
HostnameCount(table, hostname) == Cardinality(WithHostname(table, hostname))

Hostnames(table) == {table[i].hostname : i \in 1..Len(table)}

RepeatsHostname(recs) ==
  \E i, j \in 1..Len(recs) : i < j /\ recs[i].hostname = recs[j].hostname

\* C1: through any sequence of pipeline runs, whatever the inventory tables
\* (tables that repeat a hostname included), no two Device rows of the store
\* have the same hostname.
C1_NoDuplicateHostnames ==
  \A i, j \in 1..Len(devices) : i # j => devices[i].hostname # devices[j].hostname

\* a finished run whose inventory names a hostname twice, the store not
\* having held it: the store holds it once
C1_Witness ==
  /\ pc = "done"
  /\ \E i, j \in 1..Len(cleaned_devices) :
       /\ i < j
       /\ cleaned_devices[i].hostname = cleaned_devices[j].hostname
       /\ HostnameCount(start[1].devices, cleaned_devices[i].hostname) = 0
       /\ HostnameCount(devices, cleaned_devices[i].hostname) = 1

TypeStatus(table, hostname) ==
  {<<table[i].device_type, table[i].status>> : i \in WithHostname(table, hostname)}

\* C2: once an undisturbed run has cleaned and loaded the inventory, cleaning
\* and loading the same inventory again leaves the same number of Device rows
\* and the same (device_type, status) for every hostname.
C2_DeviceLoadIdempotent ==
  (Running \/ Ended) /\ start[1].rerun /\ baseline[1].completed /\ Completed("load_devices")
    => /\ Len(devices) = Len(baseline[1].devices)
       /\ \A h \in Hostnames(devices) \cup Hostnames(baseline[1].devices) :
            TypeStatus(devices, h) = TypeStatus(baseline[1].devices, h)

\* the second load of an inventory that names one hostname with two different
\* classifications has run and created nothing
C2_Witness ==
  /\ pc = "done"
  /\ start[1].rerun
  /\ baseline[1].completed
  /\ processed_records.devices = 0
  /\ \E i, j \in 1..Len(cleaned_devices) :
       /\ i < j
       /\ cleaned_devices[i].hostname = cleaned_devices[j].hostname
       /\ cleaned_devices[i].status # cleaned_devices[j].status

\* C3: for fixed input files, the numbers of SecurityEvent, SystemMetrics and
\* UserActivity rows an undisturbed run leaves equal the numbers the first
\* undisturbed run over those files left, whatever the store held before.
C3_RunCountsIdempotent ==
  Ended /\ start[1].rerun /\ faults = 0
    => /\ Len(events) = baseline[1].events
       /\ Len(metrics) = baseline[1].metrics
       /\ Len(activities) = baseline[1].activities

\* a later run over an event log with rows has finished undisturbed
C3_Witness ==
  /\ pc = "done"
  /\ start[1].rerun
  /\ faults = 0
  /\ Len(events) > 0
  /\ Len(metrics) = HoursWindow

\* C4: within a run each of the three tables is bulk-deleted at most once, the
\* three deletes have all happened before the first insert of an event or
\* metric row, and no delete happens once a row has been inserted.
C4_ClearOnceBeforeInserts ==
  /\ [](Running \/ Ended =>
          /\ cleared.events <= 1 /\ cleared.metrics <= 1 /\ cleared.activities <= 1
          /\ (inserts > 0 => cleared = [events |-> 1, metrics |-> 1, activities |-> 1])
          /\ (pc = "done" => cleared = [events |-> 1, metrics |-> 1, activities |-> 1]))
  /\ [][Running /\ cleared' # cleared => inserts = 0 /\ inserts' = 0]_vars

\* a run that started on stale rows has inserted events and metrics
C4_Witness ==
  /\ pc = "done"
  /\ start[1].stale
  /\ inserts > HoursWindow
  /\ Len(events) > 0

\* C5: load_security_events and load_system_metrics, for every list and every
\* set of positions at which the store fails, try every record in order,
\* return normally the number of records inserted, and append one error per
\* failed record.
C5_LoadersNeverAbort ==
  last_load # <<>> /\ last_load[1].loader \in {"load_security_events", "load_system_metrics"}
    => LET l == last_load[1]
       IN  /\ l.attempted = [i \in 1..l.input |-> i]
           /\ l.returned = l.input - Cardinality(l.fails)
           /\ l.new_errors = Cardinality(l.fails)
           /\ l.added = l.returned
           /\ Completed(l.loader)

\* load_security_events has gone on after failures at the first two of three
\* records
C5_Witness ==
  /\ last_load # <<>>
  /\ last_load[1].loader = "load_security_events"
  /\ last_load[1].input = 3
  /\ last_load[1].fails = {1, 2}
  /\ last_load[1].returned = 1

InvalidIpRows(df) == {i \in 1..Len(df) : CleanDeviceRow(df[i]) = <<>>}

\* the inventory has one row with an invalid IP address among valid rows
\* with distinct hostnames the store does not hold, and nothing else goes
\* wrong in the run
OneInvalidIpRow ==
  LET df == files.inventory.rows
  IN  /\ files \in InventoryCases
      /\ files.inventory.state = "table"
      /\ Cardinality(InvalidIpRows(df)) = 1
      /\ Len(df) >= 2
      /\ ~RepeatsHostname(clean_network_inventory(df))
      /\ \A h \in Hostnames(clean_network_inventory(df)) : HostnameCount(start[1].devices, h) = 0
      /\ faults = 0

\* C6: a run over an inventory with one invalid-IP row among n valid rows
\* with distinct new hostnames loads n devices, records one error for the
\* invalid row, and ends COMPLETED_WITH_WARNINGS.
C6_InvalidIpRowRecorded ==
  pc = "done" /\ OneInvalidIpRow
    => /\ processed_records.devices = Len(files.inventory.rows) - 1
       /\ summary[1].errors_count = 1
       /\ summary[1].pipeline_status = "COMPLETED_WITH_WARNINGS"

Readers == {"extract_network_inventory", "extract_event_logs", "extract_marketing_data"}

\* C7: no source reader lets an exception out, whatever reading the files
\* does.
C7_ReadersNeverRaise == raised \notin Readers

\* C8: a run on an empty store with no CSV file present ends with Device
\* rows and SecurityEvent rows in the store and with a summary whose status
\* is SUCCESS or COMPLETED_WITH_WARNINGS.
C8_MissingFilesFallback ==
  (Ended /\ files = FileSet(Missing, Missing, Missing, Missing) /\ start[1].empty /\ faults = 0)
    => /\ pc = "done"
       /\ summary[1].pipeline_status \in {"SUCCESS", "COMPLETED_WITH_WARNINGS"}
       /\ devices # <<>>
       /\ events # <<>>

\* C9: the statements a run has completed are in phase order (INIT,
\* EXTRACTING, TRANSFORMING, LOADING, SUMMARIZING): no statement of an
\* earlier phase follows one of a later phase, the summary is built after the
\* three loads, and a run that returns has gone through every phase.
C9_PhasesInOrder ==
  /\ \A i, j \in 1..Len(trace) : i < j => PhaseRank(trace[i]) <= PhaseRank(trace[j])
  /\ \A i \in 1..Len(trace) : i > 1 => PhaseRank(trace[i]) <= PhaseRank(trace[i - 1]) + 1
  /\ Completed("build_summary")
       => \E i \in 1..Len(trace) :
            /\ trace[i] = "build_summary"
            /\ \A l \in {"load_devices", "load_security_events", "load_system_metrics"} :
                 \E k \in 1..(i - 1) : trace[k] = l
  /\ pc = "done" => {PhaseOf(trace[i]) : i \in 1..Len(trace)} \cup {PhaseOf(pc)}
                      = {Phases[i] : i \in 1..Len(Phases)}

\* a run has returned after completing every statement
C9_Witness ==
  /\ pc = "done"
  /\ Len(trace) = Len(StepOrder)
  /\ PhaseOf(trace[1]) = "INIT"
  /\ PhaseOf(trace[Len(trace)]) = "SUMMARIZING"

\* C10: a failure inside any phase is caught: no exception leaves
\* run_pipeline, so no run ends without returning its summary.
C10_EveryFailureCaught == pc # "failed" /\ raised = "none"

\* C11: the summary a run returns says SUCCESS exactly when the run recorded
\* no error and COMPLETED_WITH_WARNINGS otherwise, counts every recorded
\* error, and shows at most the first five of them, in the order recorded.
C11_SummaryReportsErrors ==
  pc = "done"
    => LET s == summary[1]
       IN  /\ s.pipeline_status = "SUCCESS" <=> Len(errors) = 0
           /\ s.pipeline_status = "COMPLETED_WITH_WARNINGS" <=> Len(errors) > 0
           /\ s.errors_count = Len(errors)
           /\ Len(s.errors) <= ErrorsShown
           /\ Len(s.errors) = IF Len(errors) < ErrorsShown THEN Len(errors) ELSE ErrorsShown
           /\ \A i \in 1..Len(s.errors) : s.errors[i] = errors[i]

\* a run has returned after recording more than five errors, a reader's
\* error first and loader errors after it
C11_Witness ==
  /\ pc = "done"
  /\ Len(errors) > ErrorsShown
  /\ errors[1] # errors[Len(errors)]
  /\ Len(summary[1].errors) = ErrorsShown
  /\ summary[1].errors[1] = errors[1]

\* C12: a run is aborted only by an exception that leaves run_pipeline; main
\* returns 1 exactly when that happened, and 0 whenever run_pipeline returned
\* a summary, whatever the summary's status and error count.
C12_ExitCodeSurfacesFatal ==
  /\ pc = "failed" <=> raised # "none"
  /\ exit_code = <<1>> <=> pc = "failed"
  /\ exit_code = <<0>> <=> pc = "done"
  /\ pc = "done" => summary # <<>>
  /\ pc = "failed" => summary = <<>> \/ raised = "save_pipeline_report"

\* the store was unreachable at the first statement of a run and main has
\* returned 1
C12_Witness ==
  /\ pc = "failed"
  /\ raised = "clear_events"
  /\ exit_code = <<1>>
  /\ trace = <<>>

\* C13: no statement of a run deletes Device rows: at every point of a run
\* and at its end the Device table begins with the rows it held when the run
\* started, unchanged and in place; the bulk deletes touch the other three
\* tables only.
C13_DevicesNeverCleared ==
  Running \/ Ended
    => /\ Len(devices) >= Len(start[1].devices)
       /\ \A i \in 1..Len(start[1].devices) : devices[i] = start[1].devices[i]
       /\ \A h \in Hostnames(start[1].devices) : h \in Hostnames(devices)

\* a run that started with Device rows and stale rows in the cleared tables
\* has returned, having deleted the stale rows and loaded from an inventory
\* that names none of the earlier devices
C13_Witness ==
  /\ pc = "done"
  /\ start[1].devices # <<>>
  /\ start[1].stale
  /\ cleared = [events |-> 1, metrics |-> 1, activities |-> 1]
  /\ activities = <<>>
  /\ cleaned_devices # <<>>
  /\ \A i \in 1..Len(cleaned_devices) :
       HostnameCount(start[1].devices, cleaned_devices[i].hostname) = 0

\* the position of the statement step in the run so far, 0 when it has not
\* completed
Position(step) ==
  IF \E i \in 1..Len(trace) : trace[i] = step
  THEN CHOOSE i \in 1..Len(trace) : trace[i] = step
  ELSE 0

\* C14: the sources are processed one at a time: the event log is read only
\* after the inventory has been read, classified and loaded, the marketing
\* file only after the events have been loaded, and no source is read
\* between the read and the load of another.
C14_OneSourceAtATime ==
  /\ Position("extract_event_logs") > 0 => Position("load_devices") > 0
  /\ Position("extract_marketing_data") > 0 => Position("load_security_events") > 0

\* the utility method method has been called on its own
CalledMethod(method) == call # <<>> /\ call[1].method = method

\* C15: for every role, notes and event-type text, the empty text included,
\* _categorize_device_type returns router, server, printer or workstation,
\* _determine_device_status returns active, warning or critical, and
\* _categorize_security_event returns a triple whose severity is info,
\* warning or critical and whose is_threat is a boolean.
C15_ClassificationInRange ==
  /\ CalledMethod("_categorize_device_type")
       => call[1].result \in {"router", "server", "printer", "workstation"}
  /\ CalledMethod("_determine_device_status")
       => call[1].result \in {"active", "warning", "critical"}
  /\ CalledMethod("_categorize_security_event")
       => /\ Len(call[1].result) = 3
          /\ call[1].result[2] \in {"info", "warning", "critical"}
          /\ call[1].result[3] \in BOOLEAN

\* _categorize_device_type has been called on a role with none of its
\* keywords
C15_Witness ==
  /\ CalledMethod("_categorize_device_type")
  /\ call[1].argument = "switch"
  /\ call[1].result = "workstation"

\* the text s has one of the keywords in it, whatever the case of its letters
HasAny(keywords, s) == \E k \in keywords : Contains(k, Lower(s))

\* C16: notes with 'no antivirus', 'outdated', 'no firewall' or 'vulnerable'
\* in them give critical, also when they have a warning keyword; otherwise
\* notes with 'ssl', 'tls', 'update' or 'patch' give warning; otherwise
\* active; the case of the letters does not matter.
C16_StatusPrecedence ==
  CalledMethod("_determine_device_status")
    => LET notes == call[1].argument
           critical == HasAny({"no antivirus", "outdated", "no firewall", "vulnerable"}, notes)
           warning == HasAny({"ssl", "tls", "update", "patch"}, notes)
       IN  /\ critical => call[1].result = "critical"
           /\ ~critical /\ warning => call[1].result = "warning"
           /\ ~critical /\ ~warning => call[1].result = "active"

\* notes with a warning keyword before a critical one have been classified
C16_Witness ==
  /\ CalledMethod("_determine_device_status")
  /\ call[1].argument = "UpdateNo Antivirus"
  /\ call[1].result = "critical"

\* C17: a role with 'router' in it gives router, also when it has 'server'
\* or 'printer'; otherwise one with 'server' gives server; otherwise one
\* with 'printer' gives printer; every other role gives workstation; the
\* case of the letters does not matter.
C17_DeviceTypePrecedence ==
  CalledMethod("_categorize_device_type")
    => LET role == call[1].argument
           router == HasAny({"router"}, role)
           server == HasAny({"server"}, role)
           printer == HasAny({"printer"}, role)
       IN  /\ router => call[1].result = "router"
           /\ ~router /\ server => call[1].result = "server"
           /\ ~router /\ ~server /\ printer => call[1].result = "printer"
           /\ ~router /\ ~server /\ ~printer => call[1].result = "workstation"

\* a role that names a server before a router has been classified
C17_Witness ==
  /\ CalledMethod("_categorize_device_type")
  /\ call[1].argument = "SERVERRouter"
  /\ call[1].result = "router"

\* C18: a label with 'login' in it gives (login_failure, critical, true),
\* also when it has 'checkout', 'wishlist' or 'profile'; otherwise one with
\* 'checkout' gives a non-threat event; otherwise one with 'wishlist' gives
\* (unauthorized_access, warning, true); otherwise, 'profile' or not, the
\* label gives (suspicious_traffic, info, false).
C18_EventPrecedence ==
  CalledMethod("_categorize_security_event")
    => LET label == call[1].argument
           login == HasAny({"login"}, label)
           checkout == HasAny({"checkout"}, label)
           wishlist == HasAny({"wishlist"}, label)
       IN  /\ login => call[1].result = <<"login_failure", "critical", TRUE>>
           /\ ~login /\ checkout => call[1].result[3] = FALSE
           /\ ~login /\ ~checkout /\ wishlist
                => call[1].result = <<"unauthorized_access", "warning", TRUE>>
           /\ ~login /\ ~checkout /\ ~wishlist
                => call[1].result = <<"suspicious_traffic", "info", FALSE>>

\* a label that names a checkout before a login has been classified
C18_Witness ==
  /\ CalledMethod("_categorize_security_event")
  /\ call[1].argument = "checkoutLogin"
  /\ call[1].result = <<"login_failure", "critical", TRUE>>

\* a group of one to three decimal digits whose value is at most 255
DecimalGroup(g) == Len(g) \in 1..3 /\ AllDigits(g) /\ IntOf(g) \in 0..255

\* four such groups with a dot between them, and nothing else
StrictDottedQuad(s) ==
  LET parts == SplitDots(s, "")
  IN  Len(parts) = 4 /\ \A i \in 1..4 : DecimalGroup(parts[i])

C19_SeverityMatchesThreat ==
  \A i \in 1..Len(events) :
    /\ events[i].severity = "critical" => events[i].is_threat = TRUE
    /\ events[i].severity = "info" => events[i].is_threat = FALSE

\* a run has loaded a critical event from its event log
C19_Witness ==
  /\ pc = "done"
  /\ processed_records.security_events > 0
  /\ \E i \in 1..Len(events) : events[i].severity = "critical" /\ events[i].is_threat

\* an undisturbed run over an inventory of the one row row has loaded it
\* on an empty store
LoadedAlone(row) ==
  /\ Completed("load_devices")
  /\ start[1].empty
  /\ faults = 0
  /\ files.inventory.state = "table"
  /\ files.inventory.rows = <<row>>

\* C21: an inventory row with a valid IP address, loaded on an empty store,
\* becomes one Device with the row's hostname and address, the type its
\* Role gives and the status its Notes give; the row PC-02, 10.0.0.102,
\* Workstation, 'Outdated OS; no antivirus' becomes
\* (PC-02, 10.0.0.102, workstation, critical).
C21_RowLoadsAsDevice ==
  /\ \A row \in InvRows :
       LoadedAlone(row) /\ _validate_ip_address(Strip(Str(row.IP_Address)))
         => /\ Len(devices) = 1
            /\ devices[1].hostname = Strip(Str(row.Device))
            /\ devices[1].ip_address = Strip(Str(row.IP_Address))
            /\ devices[1].device_type = _categorize_device_type(Strip(Str(row.Role)))
            /\ devices[1].status = _determine_device_status(Strip(Str(row.Notes)))
  /\ LoadedAlone(InvRow(Text("PC-02"), Text("10.0.0.102"), Text("Workstation"), Text("Win10"),
                        Text("Outdated OS; no antivirus")))
       => /\ Len(devices) = 1
          /\ devices[1].hostname = "PC-02"
          /\ devices[1].ip_address = "10.0.0.102"
          /\ devices[1].device_type = "workstation"
          /\ devices[1].status = "critical"

\* the row PC-02 has been loaded alone on an empty store by a run that has
\* returned
C21_Witness ==
  /\ pc = "done"
  /\ LoadedAlone(InvRow(Text("PC-02"), Text("10.0.0.102"), Text("Workstation"), Text("Win10"),
                        Text("Outdated OS; no antivirus")))
  /\ processed_records.devices = 1

\* C22: every generated sample, whatever noise is drawn, has cpu_usage in
\* 10..95 and so in 0..100, memory_usage in 20..90 and so in 0..100, and
\* response_time at least 50 and so positive.
C22_MetricsInRange ==
  CalledMethod("generate_system_metrics")
    => LET m == call[1].result
       IN  /\ m.cpu_usage >= 10 /\ m.cpu_usage <= 95
           /\ m.memory_usage >= 20 /\ m.memory_usage <= 90
           /\ m.response_time >= 50
           /\ m.cpu_usage \in 0..100
           /\ m.memory_usage \in 0..100
           /\ m.response_time > 0

\* a sample has been generated from draws that leave the ranges: cpu and
\* memory above 100 and response time below 0 before clamping
C22_Witness ==
  /\ CalledMethod("generate_system_metrics")
  /\ call[1].argument.hour_of_day = 8
  /\ call[1].argument.noise = [cpu |-> MaxNoise, memory |-> MaxNoise, response |-> -MaxNoise]
  /\ call[1].result = [cpu_usage |-> 95, memory_usage |-> 90, response_time |-> 50]

\* the device list devs has a device whose status is critical
HasCritical(devs) == \E i \in 1..Len(devs) : devs[i].status = "critical"

\* C23: the metrics generator gives critical devices a higher load: for the
\* same hour, a sample generated for a critical device has cpu_usage,
\* memory_usage and response_time above every sample that can be generated
\* for devices that are not critical.
C23_CriticalDevicesLoadHigher ==
  CalledMethod("generate_system_metrics") /\ HasCritical(call[1].argument.devs)
    => \A others \in {d \in MetricDevices : ~HasCritical(d)}, noise \in Noises :
         LET other == GenerateMetric(others, call[1].argument.hour_of_day, noise)
         IN  /\ call[1].result.cpu_usage > other.cpu_usage
             /\ call[1].result.memory_usage > other.memory_usage
             /\ call[1].result.response_time > other.response_time

\* the text s begins with the text p
HasPrefix(p, s) == Len(s) >= Len(p) /\ SubSeq(s, 1, Len(p)) = p

\* the address ip is prefix followed by a last octet in 1..254
InRange(prefix, ip) ==
  /\ HasPrefix(prefix, ip)
  /\ LET octet == SubSeq(ip, Len(prefix) + 1, Len(ip))
     IN  Len(octet) \in 1..3 /\ AllDigits(octet) /\ IntOf(octet) \in 1..254

\* C24: every cleaned event flagged as a threat has a source address
\* 203.0.113.x or 198.51.100.x, every other cleaned event has 192.168.1.x,
\* and x is in 1..254.
C24_SourceIpFollowsThreat ==
  \A i \in 1..Len(cleaned_events) :
    LET e == cleaned_events[i]
    IN  /\ e.is_threat => InRange("203.0.113.", e.source_ip) \/ InRange("198.51.100.", e.source_ip)
        /\ ~e.is_threat => InRange("192.168.1.", e.source_ip)

\* the cell of column col is absent from the row or empty
Absent(row, col) == col \notin DOMAIN row \/ row[col] = NaN

Defaults == {"", "unknown"}

\* C25: a textual field that is absent or empty in a raw row is normalized
\* to the empty text or to 'unknown', never to another literal such as
\* 'nan': the hostname, os and notes of a cleaned device, and the user and
\* product named in the details of a cleaned event.
C25_AbsentTextDefaults ==
  /\ Completed("clean_network_inventory") /\ Len(raw_devices_df) = 1 /\ Len(cleaned_devices) = 1
       => LET row == raw_devices_df[1]
              device == cleaned_devices[1]
          IN  /\ Absent(row, "Device") => device.hostname \in Defaults
              /\ Absent(row, "OS") => device.os \in Defaults
              /\ Absent(row, "Notes") => device.notes \in Defaults
  /\ Completed("clean_event_logs") /\ Len(raw_events_df) = 1 /\ Len(cleaned_events) = 1
       => LET row == raw_events_df[1]
              event == cleaned_events[1]
          IN  /\ Absent(row, "user_id") => ~Contains("User: nan", event.details)
              /\ Absent(row, "product_id") => ~Contains("Product: nan", event.details)

\* C27: load_devices leaves a Device whose hostname a record names as it
\* was, whatever the record says, and writes only rows for hostnames the
\* table did not hold: after it, each earlier row has its address, type,
\* status, os and notes, and every new row has a hostname new to the table.
C27_ExistingDeviceUntouched ==
  Completed("load_devices")
    => LET before == start[1].devices
       IN  /\ \A i \in 1..Len(before) :
                /\ devices[i].hostname = before[i].hostname
                /\ devices[i].ip_address = before[i].ip_address
                /\ devices[i].device_type = before[i].device_type
                /\ devices[i].status = before[i].status
                /\ devices[i].os = before[i].os
                /\ devices[i].notes = before[i].notes
           /\ \A j \in (Len(before) + 1)..Len(devices) :
                /\ HostnameCount(before, devices[j].hostname) = 0
                /\ \E k \in 1..Len(cleaned_devices) : cleaned_devices[k] = devices[j]

\* load_devices has met a record whose hostname the table held with another
\* address, type and status, and the row is as it was
C27_Witness ==
  /\ Completed("load_devices")
  /\ \E i \in 1..Len(start[1].devices), k \in 1..Len(cleaned_devices) :
       /\ cleaned_devices[k].hostname = start[1].devices[i].hostname
       /\ cleaned_devices[k].ip_address # start[1].devices[i].ip_address
       /\ cleaned_devices[k].device_type # start[1].devices[i].device_type
       /\ cleaned_devices[k].status # start[1].devices[i].status
       /\ devices[i] = start[1].devices[i]

\* C28: the devices count of a run is the number of Device rows the run
\* created, not the number of valid input rows: a later run over the same
\* inventory reports 0 devices while the store still holds them.
C28_DevicesCountIsCreated ==
  /\ Completed("load_devices")
       => processed_records.devices = Len(devices) - Len(start[1].devices)
  /\ pc = "done"
       => summary[1].records_processed.devices = Len(devices) - Len(start[1].devices)
  /\ pc = "done" /\ start[1].rerun /\ baseline[1].completed
       => /\ summary[1].records_processed.devices = 0
          /\ \A k \in 1..Len(cleaned_devices) :
               HostnameCount(devices, cleaned_devices[k].hostname) = 1

\* a later run over an inventory with valid rows has returned, reporting
\* no device
C28_Witness ==
  /\ pc = "done"
  /\ start[1].rerun
  /\ baseline[1].completed
  /\ Len(cleaned_devices) > 0
  /\ summary[1].records_processed.devices = 0
  /\ Len(devices) > 0

\* C29: after a run that returns, the UserActivity table is empty, whatever
\* it held and whatever the marketing file holds; no statement inserts a
\* UserActivity row, and the user_activities and products counts are 0.
C29_NoUserActivities ==
  /\ pc = "done" => activities = <<>>
  /\ (Running \/ Ended) /\ cleared.activities = 1 => activities = <<>>
  /\ processed_records.user_activities = 0
  /\ processed_records.products = 0
  /\ pc = "done" => /\ summary[1].records_processed.user_activities = 0
                    /\ summary[1].records_processed.products = 0

\* a run that started with UserActivity rows and read a marketing file with
\* rows has returned
C29_Witness ==
  /\ pc = "done"
  /\ start[1].stale
  /\ raw_marketing_df # <<>>
  /\ activities = <<>>

\* the reader's error is among the errors of the run
EventLogError == \E i \in 1..Len(errors) : errors[i] = "Event logs extraction"

C26_InterleavedRunsLeaveOneRun ==
  pc = "done" /\ peer.pc = "done" /\ faults = 0
    => /\ ~RepeatsHostname(devices)
       /\ Len(events) = Len(cleaned_events)
       /\ Len(metrics) = HoursWindow

====
